---- MODULE Spec2Model ----
(***************************************************************************)
(* go-commerce-api: the checkout / cancellation / payment settlement       *)
(* workflow of the order, product and payment modules.                     *)
(*                                                                         *)
(* Every database statement is one atomic step.  A handler is a process    *)
(* (an HTTP worker, or the settlement goroutine of one payment) that runs  *)
(* its statements in program order; between two statements of one handler  *)
(* the statements of the others may run.  Rows read by a handler are       *)
(* copied into its locals, and gorm's Save writes the whole local copy     *)
(* back.                                                                   *)
(*                                                                         *)
(* Money is kept in integer units (the float64 / decimal(12,2) rounding    *)
(* is not modelled).                                                       *)
(***************************************************************************)
EXTENDS Integers, Sequences, FiniteSets, TLC

\* ------------------------------------------------------------------ bounds
MaxStock == 2      \* largest stock the products start with
MaxCalls == 2      \* most handler calls started in one behaviour of SeqSpec
MaxFaults == 1     \* most persistence failures injected in one behaviour
MaxStatusCalls == 5  \* most handler calls started in one behaviour of StatusSpec
MaxConcCalls == 3  \* most handler calls started in one behaviour of Spec
MaxPayCalls == 3   \* most handler calls started in one behaviour of PaySpec
MaxLifeCalls == 3  \* most handler calls started in one behaviour of LifeSpec

\* ---------------------------------------------------------------- universes
ProductIDs == {1, 2}              \* rows of the products table
RequestProductIDs == {1, 2, 3}    \* ids a request may name (3 has no row)
OrderIDs == {1, 2}                \* order ids a request may name
Quantities == {1, 2}              \* OrderItemRequest.Quantity, binding gt=0
UserIDs == {1, 2}
Workers == {1, 2}                 \* concurrently served requests
Price == <<5, 3>>                 \* products.price by product id, to begin with
SellerID == <<1, 1>>              \* products.seller_id by product id
StockActions == {"add", "reduce"} \* UpdateStockRequest.Action, binding oneof
RequestedPrices == {0, 7}         \* UpdateProductRequest.Price, 0 when omitted
\* the "stock" member of an update request's JSON body: absent, or a number
RequestedStocks ==
  {[present |-> FALSE, value |-> 0]} \cup {[present |-> TRUE, value |-> n] : n \in 0..MaxStock}
PaymentIDs == {1, 2}              \* ids of the payment rows that may be created
TransactionIDs == {1, 2}          \* what generateTransactionID may return
Procs == Workers \cup {10 + k : k \in PaymentIDs}
\* the goroutine CreatePayment starts for payment k
TaskOf(k) == 10 + k

\* order.status, src/unnamed/part_001:42-48
OrderStatusPending == "PENDING"
OrderStatusPaid == "PAID"
OrderStatusShipped == "SHIPPED"
OrderStatusCompleted == "COMPLETED"
OrderStatusCancelled == "CANCELLED"
OrderStatuses ==
  {OrderStatusPending, OrderStatusPaid, OrderStatusShipped,
   OrderStatusCompleted, OrderStatusCancelled}
\* what a caller of Order.UpdateStatus may pass: the five names and one
\* string that is no status
RequestedStatuses == OrderStatuses \cup {"REFUNDED"}

\* payment.status, src/internal/payment/dto/payment_dto.go:56-61
PaymentStatusPending == "PENDING"
PaymentStatusProcessing == "PROCESSING"
PaymentStatusSuccess == "SUCCESS"
PaymentStatusFailed == "FAILED"
\* payment methods, src/internal/payment/dto/payment_dto.go:64-68
PaymentMethodBankTransfer == "BANK_TRANSFER"
PaymentMethodCreditCard == "CREDIT_CARD"
PaymentMethodEWallet == "E_WALLET"
\* the methods a request may name: one recognised, one not
RequestedMethods == {PaymentMethodBankTransfer, "CASH"}
\* PaymentCallbackRequest.Status, binding oneof=SUCCESS FAILED
CallbackStatuses == {"SUCCESS", "FAILED"}
GatewayDeclined == "Payment declined by gateway (simulated)"
\* PaymentCallbackRequest.FailedReason, which a request may omit
CallbackReasons == {"", "declined by callback"}

VARIABLES
  stock,     \* products.stock by product id
  price,     \* products.price by product id
  orders,    \* the orders table: row i is the order with id i
  payments,  \* the payments table: row k is the payment with id k
  resolved,  \* per payment: how many writes of a terminal status it received
  pc,        \* where each process is in its handler
  loc,       \* each process's locals
  calls,     \* handler calls started so far
  faults,    \* persistence failures injected so far
  quiet,     \* per order: no other call changed stock since its checkout began
  before,    \* per order: the stock when its checkout began
  redisClient, \* authService.redisClient is not nil
  blacklist,   \* Redis keys "blacklist:<token>", each with the hour it expires at
  now,         \* the clock, in hours
  loggedOut    \* the tokens for which a Logout has answered 200

authVars == <<redisClient, blacklist, now, loggedOut>>
vars == <<stock, price, orders, payments, resolved, pc, loc, calls, faults, quiet, before,
          authVars>>

\* ------------------------------------------------------------ pure helpers
RequestLines == [productID : RequestProductIDs, quantity : Quantities]
\* CheckoutRequest.Items of up to two lines; the service itself rejects the
\* empty list
CheckoutRequests ==
  {<<>>} \cup {<<a>> : a \in RequestLines} \cup {<<a, b>> : a, b \in RequestLines}

NoOrder == [userID |-> 0, status |-> "", items |-> <<>>, totalAmount |-> 0]
\* jwtService.expireHour, and the tokens GenerateToken signs: the user and
\* the hour the token expires at
TokenExpiry == 2
MaxTime == 3
Tokens == [userID : UserIDs, exp : TokenExpiry..(MaxTime + TokenExpiry)]
NoToken == [userID |-> 0, exp |-> 0]
NoProduct == [stock |-> 0, price |-> 0]
NoPayment ==
  [orderID |-> 0, userID |-> 0, amount |-> 0, method |-> "", status |-> "",
   transactionID |-> 0, paidAt |-> FALSE, failedReason |-> ""]

\* Product.HasStock with the comparison off by one
HasStockOffByOne(productStock, quantity) == productStock >= quantity - 1

\* Product.HasStock
HasStock(productStock, quantity) == productStock >= quantity

\* Order.IsOwner
IsOwner(order, userID) == order.userID = userID

\* Order.IsPending, Order.CanBeCancelled, Order.CanBeShipped, Order.CanBeCompleted
IsPending(order) == order.status = OrderStatusPending
\* Order.CanBeCancelled letting a paid order be cancelled
CanBeCancelledWhenPaid(order) == order.status \in {OrderStatusPending, OrderStatusPaid}
CanBeCancelled(order) == order.status = OrderStatusPending
\* Order.CanBeShipped letting an unpaid order ship
CanBeShippedUnpaid(order) == order.status \in {OrderStatusPending, OrderStatusPaid}
CanBeShipped(order) == order.status = OrderStatusPaid
CanBeCompleted(order) == order.status = OrderStatusShipped

\* Order.UpdateStatus: the pair <<ok, order after the call>>
UpdateStatus(order, newStatus) ==
  CASE newStatus = OrderStatusPaid /\ IsPending(order) ->
         <<TRUE, [order EXCEPT !.status = OrderStatusPaid]>>
    [] newStatus = OrderStatusShipped /\ CanBeShipped(order) ->
         <<TRUE, [order EXCEPT !.status = OrderStatusShipped]>>
    [] newStatus = OrderStatusCompleted /\ CanBeCompleted(order) ->
         <<TRUE, [order EXCEPT !.status = OrderStatusCompleted]>>
    [] newStatus = OrderStatusCancelled /\ CanBeCancelled(order) ->
         <<TRUE, [order EXCEPT !.status = OrderStatusCancelled]>>
    [] OTHER -> <<FALSE, order>>

\* productRepository.UpdateStock setting the column instead of adding to it
UpdateStockAbsolute(s, id, quantity) == [s EXCEPT ![id] = quantity]

\* productRepository.UpdateStock: UPDATE products SET stock = stock + ? WHERE id = ?
\* It runs on the repository's own handle, never on the caller's transaction.
UpdateStock(s, id, quantity) == [s EXCEPT ![id] = @ + quantity]

\* productService.RestoreStock giving back one unit whatever the quantity
RestoreStockOneUnit(s, productID, quantity) == UpdateStock(s, productID, 1)

\* productService.RestoreStock
RestoreStock(s, productID, quantity) == UpdateStock(s, productID, quantity)

\* subtotal := product.Price * float64(item.Quantity), with the quantity left out
SubtotalUnitPrice(unitPrice, quantity) == unitPrice

\* subtotal := product.Price * float64(item.Quantity)
Subtotal(unitPrice, quantity) == unitPrice * quantity

\* Order.CalculateTotal: the sum of the items' subtotals
RECURSIVE SumSubtotals(_)
SumSubtotals(items) ==
  IF items = <<>> THEN 0 ELSE items[1].subtotal + SumSubtotals(Tail(items))
CalculateTotal(order) == SumSubtotals(order.items)

\* orderRepository.Update: Save writes every column of the caller's copy
SaveOrder(tbl, id, order) == [tbl EXCEPT ![id] = order]

\* Payment.IsSuccess comparing with the order's status name
IsSuccessWrongName(payment) == payment.status = OrderStatusPaid

\* Payment.IsSuccess, Payment.IsFailed
IsSuccess(payment) == payment.status = PaymentStatusSuccess
IsFailed(payment) == payment.status = PaymentStatusFailed

\* Payment.MarkAsProcessing
MarkAsProcessing(payment) == [payment EXCEPT !.status = PaymentStatusProcessing]

\* Payment.MarkAsSuccess without PaidAt
MarkAsSuccessNoPaidAt(payment) == [payment EXCEPT !.status = PaymentStatusSuccess]

\* Payment.MarkAsSuccess: the status and PaidAt = now
MarkAsSuccess(payment) ==
  [payment EXCEPT !.status = PaymentStatusSuccess, !.paidAt = TRUE]

\* Payment.MarkAsFailed that records the reason and leaves the status
MarkAsFailedKeepsStatus(payment, reason) == [payment EXCEPT !.failedReason = reason]

\* Payment.MarkAsFailed
MarkAsFailed(payment, reason) ==
  [payment EXCEPT !.status = PaymentStatusFailed, !.failedReason = reason]

\* the payment record of CreatePayment with Amount left at its zero value
NewPaymentNoAmount(orderID, userID, amount, method, transactionID) ==
  [orderID |-> orderID, userID |-> userID, amount |-> 0, method |-> method,
   status |-> PaymentStatusPending, transactionID |-> transactionID,
   paidAt |-> FALSE, failedReason |-> ""]

\* payment := &entity.Payment{...} in CreatePayment
NewPayment(orderID, userID, amount, method, transactionID) ==
  [orderID |-> orderID, userID |-> userID, amount |-> amount, method |-> method,
   status |-> PaymentStatusPending, transactionID |-> transactionID,
   paidAt |-> FALSE, failedReason |-> ""]

\* entity.IsValidMethod
IsValidMethod(method) ==
  \/ method = PaymentMethodBankTransfer
  \/ method = PaymentMethodCreditCard
  \/ method = PaymentMethodEWallet

Min(S) == CHOOSE x \in S : \A y \in S : x <= y

\* paymentRepository.FindByOrderID: WHERE order_id = ? ... First, which orders
\* by primary key; the id of the row found, 0 for ErrRecordNotFound
FindByOrderID(tbl, orderID) ==
  LET rows == {k \in DOMAIN tbl : tbl[k].orderID = orderID}
  IN IF rows = {} THEN 0 ELSE Min(rows)

\* paymentRepository.FindByTransactionID
FindByTransactionID(tbl, transactionID) ==
  LET rows == {k \in DOMAIN tbl : tbl[k].transactionID = transactionID}
  IN IF rows = {} THEN 0 ELSE Min(rows)

\* paymentRepository.Update: Save writes every column of the caller's copy
SavePayment(tbl, id, payment) == [tbl EXCEPT ![id] = payment]

\* one more write of a terminal status to payment id
Resolve(id) == [resolved EXCEPT ![id] = @ + 1]

\* ------------------------------------------------------------------ locals
\* The fields below `result` are not the handler's: they record what the call
\* was given and what the tables held when it began.
IdleLocals ==
  [op |-> "none", userID |-> 0, items |-> <<>>, i |-> 0, orderItems |-> <<>>,
   totalAmount |-> 0, orderID |-> 0, order |-> NoOrder, result |-> "",
   status |-> "", status0 |-> "", stock0 |-> <<>>, nOrders0 |-> 0, restored |-> 0,
   taken |-> [p \in ProductIDs |-> 0],
   paymentID |-> 0, payment |-> NoPayment, method |-> "", transactionID |-> 0,
   reason |-> "", isAdmin |-> FALSE, retry |-> FALSE,
   productPrice |-> 0, productID |-> 0, product |-> NoProduct, readStock |-> 0,
   token |-> NoToken, stockSupplied |-> FALSE]

\* a handler returns: its locals are dropped, the call's outcome is kept
Returned(l, result) ==
  [IdleLocals EXCEPT !.op = l.op, !.orderID = l.orderID, !.result = result,
                     !.status = l.status, !.status0 = l.status0,
                     !.stock0 = l.stock0, !.nOrders0 = l.nOrders0,
                     !.restored = l.restored, !.taken = l.taken,
                     !.paymentID = l.paymentID, !.transactionID = l.transactionID,
                     !.productID = l.productID]

\* a handler refuses the call on a check: the outcome also keeps the caller
Refused(l, result) == [Returned(l, result) EXCEPT !.userID = l.userID]

\* the tables and the processes after main's construction
InitStore ==
  /\ \E n \in 0..MaxStock : stock = [p \in ProductIDs |-> n]
  /\ price = Price
  /\ orders = <<>>
  /\ payments = <<>>
  /\ resolved = <<>>
  /\ pc = [p \in Procs |-> "idle"]
  /\ loc = [p \in Procs |-> IdleLocals]
  /\ calls = 0
  /\ faults = 0
  /\ quiet = <<>>
  /\ before = <<>>
  /\ blacklist = [t \in {} |-> 0]
  /\ now = 0
  /\ loggedOut = {}

\* main with Redis reachable at start
Init == InitStore /\ redisClient = TRUE

\* a stock write by a call other than the cancellation of order `own`
Disturb(own) == [o \in DOMAIN quiet |-> quiet[o] /\ o = own]

\* ---------------------------------------------------------------- Checkout
\* orderService.Checkout, entry: the empty-cart check and tx := db.Begin()
Checkout(w, userID, items) ==
  /\ pc[w] = "idle"
  /\ calls' = calls + 1
  /\ LET l == [IdleLocals EXCEPT !.op = "Checkout", !.userID = userID, !.items = items,
                                 !.i = 1, !.stock0 = stock, !.nOrders0 = Len(orders)]
     IN IF Len(items) = 0
        THEN /\ pc' = [pc EXCEPT ![w] = "idle"]
             /\ loc' = [loc EXCEPT ![w] = Returned(l, "EmptyCart")]
        ELSE /\ pc' = [pc EXCEPT ![w] = "ck_get"]
             /\ loc' = [loc EXCEPT ![w] = l]
  /\ UNCHANGED <<authVars, price, payments, resolved, stock, orders, faults, quiet, before>>

\* the loop body up to product.HasStock: GetProductByID reads the product row
CheckoutGetProduct(w) ==
  /\ pc[w] = "ck_get"
  /\ LET l == loc[w]
         item == l.items[l.i]
     IN IF item.productID \notin ProductIDs
        THEN \* tx.Rollback(): the transaction holds no statement yet
             /\ pc' = [pc EXCEPT ![w] = "idle"]
             /\ loc' = [loc EXCEPT ![w] = Returned(l, "ProductNotFound")]
        ELSE IF ~HasStock(stock[item.productID], item.quantity)
        THEN /\ pc' = [pc EXCEPT ![w] = "idle"]
             /\ loc' = [loc EXCEPT ![w] = Returned(l, "InsufficientStock")]
        ELSE /\ pc' = [pc EXCEPT ![w] = "ck_find"]
             /\ loc' = [loc EXCEPT ![w].productPrice = price[item.productID]]
  /\ UNCHANGED <<authVars, price, payments, resolved, stock, orders, calls, faults, quiet, before>>

\* productService.ReduceStock, first half: FindByID and HasStock
ReduceStockFind(w) ==
  /\ pc[w] = "ck_find"
  /\ LET l == loc[w]
         item == l.items[l.i]
     IN IF ~HasStock(stock[item.productID], item.quantity)
        THEN /\ pc' = [pc EXCEPT ![w] = "idle"]
             /\ loc' = [loc EXCEPT ![w] = Returned(l, "InsufficientStock")]
        ELSE /\ pc' = [pc EXCEPT ![w] = "ck_update"]
             /\ loc' = loc
  /\ UNCHANGED <<authVars, price, payments, resolved, stock, orders, calls, faults, quiet, before>>

\* productService.ReduceStock, second half: UpdateStock(productID, -quantity),
\* then the order item is appended and the loop goes on
ReduceStockUpdate(w) ==
  /\ pc[w] = "ck_update"
  /\ LET l == loc[w]
         item == l.items[l.i]
         subtotal == Subtotal(l.productPrice, item.quantity)
         orderItem == [productID |-> item.productID, quantity |-> item.quantity,
                       price |-> l.productPrice, subtotal |-> subtotal]
     IN /\ stock' = UpdateStock(stock, item.productID, -item.quantity)
        /\ loc' = [loc EXCEPT ![w] = [l EXCEPT !.orderItems = Append(@, orderItem),
                                               !.totalAmount = @ + subtotal,
                                               !.i = @ + 1,
                                               !.productPrice = 0,
                                               !.taken[item.productID] = @ + item.quantity]]
        /\ pc' = [pc EXCEPT ![w] = IF l.i = Len(l.items) THEN "ck_create" ELSE "ck_get"]
  /\ quiet' = Disturb(0)
  /\ UNCHANGED <<authVars, price, payments, resolved, orders, calls, faults, before>>

\* orderRepoWithTx.Create(order) and tx.Commit(): the order row and its items
\* become visible together
CheckoutCommit(w) ==
  /\ pc[w] = "ck_create"
  /\ LET l == loc[w]
         order == [userID |-> l.userID, status |-> OrderStatusPending,
                   items |-> l.orderItems, totalAmount |-> l.totalAmount]
     IN /\ orders' = Append(orders, order)
        /\ quiet' = Append(quiet, TRUE)
        /\ before' = Append(before, l.stock0)
        /\ loc' = [loc EXCEPT ![w] = [Returned(l, "OK") EXCEPT !.orderID = Len(orders) + 1]]
  /\ pc' = [pc EXCEPT ![w] = "idle"]
  /\ UNCHANGED <<authVars, price, payments, resolved, stock, calls, faults>>

\* the insert or the commit fails: tx.Rollback() (or the failed commit) drops
\* the order; the stock updates ran outside the transaction
CheckoutCommitFails(w) ==
  /\ pc[w] = "ck_create"
  /\ faults < MaxFaults
  /\ faults' = faults + 1
  /\ loc' = [loc EXCEPT ![w] = Returned(loc[w], "DBError")]
  /\ pc' = [pc EXCEPT ![w] = "idle"]
  /\ UNCHANGED <<authVars, price, payments, resolved, stock, orders, calls, quiet, before>>

\* ------------------------------------------------------------- CancelOrder
\* orderService.CancelOrder up to tx := db.Begin(): FindByIDWithItems and the
\* ownership and status checks on the copy read
CancelOrder(w, userID, orderID) ==
  /\ pc[w] = "idle"
  /\ calls' = calls + 1
  /\ LET l == [IdleLocals EXCEPT !.op = "CancelOrder", !.userID = userID,
                                 !.orderID = orderID, !.i = 1,
                                 !.status0 = IF orderID \in DOMAIN orders
                                             THEN orders[orderID].status ELSE "",
                                 !.stock0 = stock, !.nOrders0 = Len(orders)]
     IN IF orderID \notin DOMAIN orders
        THEN /\ pc' = [pc EXCEPT ![w] = "idle"]
             /\ loc' = [loc EXCEPT ![w] = Returned(l, "OrderNotFound")]
        ELSE IF ~IsOwner(orders[orderID], userID)
        THEN /\ pc' = [pc EXCEPT ![w] = "idle"]
             /\ loc' = [loc EXCEPT ![w] = Refused(l, "Unauthorized")]
        ELSE IF ~CanBeCancelled(orders[orderID])
        THEN /\ pc' = [pc EXCEPT ![w] = "idle"]
             /\ loc' = [loc EXCEPT ![w] = Refused(l, "OrderNotCancellable")]
        ELSE /\ pc' = [pc EXCEPT ![w] = "cn_restore"]
             /\ loc' = [loc EXCEPT ![w] = [l EXCEPT !.order = orders[orderID]]]
  /\ UNCHANGED <<authVars, price, payments, resolved, stock, orders, faults, quiet, before>>

\* one turn of the loop: productService.RestoreStock(item.ProductID, item.Quantity)
CancelRestoreStock(w) ==
  /\ pc[w] = "cn_restore"
  /\ LET l == loc[w]
         item == l.order.items[l.i]
     IN /\ stock' = RestoreStock(stock, item.productID, item.quantity)
        /\ loc' = [loc EXCEPT ![w] = [l EXCEPT !.i = @ + 1, !.restored = @ + 1]]
        /\ pc' = [pc EXCEPT ![w] = IF l.i = Len(l.order.items) THEN "cn_update" ELSE "cn_restore"]
        /\ quiet' = Disturb(l.orderID)
  /\ UNCHANGED <<authVars, price, payments, resolved, orders, calls, faults, before>>

\* RestoreStock returns an error: tx.Rollback() and the error is returned
CancelRestoreFails(w) ==
  /\ pc[w] = "cn_restore"
  /\ faults < MaxFaults
  /\ faults' = faults + 1
  /\ loc' = [loc EXCEPT ![w] = Returned(loc[w], "DBError")]
  /\ pc' = [pc EXCEPT ![w] = "idle"]
  /\ quiet' = IF loc[w].restored > 0 THEN Disturb(0) ELSE quiet
  /\ UNCHANGED <<authVars, price, payments, resolved, stock, orders, calls, before>>

\* order.Status = CANCELLED; orderRepoWithTx.Update(order); tx.Commit()
CancelCommit(w) ==
  /\ pc[w] = "cn_update"
  /\ LET l == loc[w]
     IN /\ orders' = SaveOrder(orders, l.orderID, [l.order EXCEPT !.status = OrderStatusCancelled])
        /\ loc' = [loc EXCEPT ![w] = Returned(l, "OK")]
  /\ pc' = [pc EXCEPT ![w] = "idle"]
  /\ UNCHANGED <<authVars, price, payments, resolved, stock, calls, faults, quiet, before>>

\* the update or the commit fails: tx.Rollback() (or the failed commit)
CancelCommitFails(w) ==
  /\ pc[w] = "cn_update"
  /\ faults < MaxFaults
  /\ faults' = faults + 1
  /\ loc' = [loc EXCEPT ![w] = Returned(loc[w], "DBError")]
  /\ pc' = [pc EXCEPT ![w] = "idle"]
  /\ quiet' = Disturb(0)
  /\ UNCHANGED <<authVars, price, payments, resolved, stock, orders, calls, before>>

\* ------------------------------------------------------- UpdateOrderStatus
\* orderService.UpdateOrderStatus up to order.UpdateStatus(status)
UpdateOrderStatus(w, userID, orderID, status, isAdmin) ==
  /\ pc[w] = "idle"
  /\ calls' = calls + 1
  /\ LET l == [IdleLocals EXCEPT !.op = "UpdateOrderStatus", !.userID = userID,
                                 !.orderID = orderID, !.status = status,
                                 !.isAdmin = isAdmin,
                                 !.status0 = IF orderID \in DOMAIN orders
                                             THEN orders[orderID].status ELSE "",
                                 !.stock0 = stock, !.nOrders0 = Len(orders)]
     IN IF orderID \notin DOMAIN orders
        THEN /\ pc' = [pc EXCEPT ![w] = "idle"]
             /\ loc' = [loc EXCEPT ![w] = Returned(l, "OrderNotFound")]
        ELSE IF ~isAdmin /\ ~IsOwner(orders[orderID], userID)
        THEN /\ pc' = [pc EXCEPT ![w] = "idle"]
             /\ loc' = [loc EXCEPT ![w] = Returned(l, "Unauthorized")]
        ELSE IF ~UpdateStatus(orders[orderID], status)[1]
        THEN /\ pc' = [pc EXCEPT ![w] = "idle"]
             /\ loc' = [loc EXCEPT ![w] = Returned(l, "InvalidStatus")]
        ELSE /\ pc' = [pc EXCEPT ![w] = "us_update"]
             /\ loc' = [loc EXCEPT ![w] = [l EXCEPT !.order = UpdateStatus(orders[orderID], status)[2]]]
  /\ UNCHANGED <<authVars, price, payments, resolved, stock, orders, faults, quiet, before>>

\* orderRepo.Update(order)
UpdateOrderStatusSave(w) ==
  /\ pc[w] = "us_update"
  /\ orders' = SaveOrder(orders, loc[w].orderID, loc[w].order)
  /\ loc' = [loc EXCEPT ![w] = Returned(loc[w], "OK")]
  /\ pc' = [pc EXCEPT ![w] = "idle"]
  /\ UNCHANGED <<authVars, price, payments, resolved, stock, calls, faults, quiet, before>>

\* orderRepo.Update(order) returns an error
UpdateOrderStatusSaveFails(w) ==
  /\ pc[w] = "us_update"
  /\ faults < MaxFaults
  /\ faults' = faults + 1
  /\ loc' = [loc EXCEPT ![w] = Returned(loc[w], "DBError")]
  /\ pc' = [pc EXCEPT ![w] = "idle"]
  /\ UNCHANGED <<authVars, price, payments, resolved, stock, orders, calls, quiet, before>>

\* ------------------------------------------------- seller: stock and product
\* productRepository.Update: Save writes every column of the caller's copy
SaveProductStock(id, product) == [stock EXCEPT ![id] = product.stock]
SaveProductPrice(id, product) == [price EXCEPT ![id] = product.price]

\* productService.UpdateStock up to productRepo.Update: FindByID, IsOwner and
\* AddStock / ReduceStock on the copy read
SellerUpdateStock(w, sellerID, productID, action, quantity) ==
  /\ pc[w] = "idle"
  /\ calls' = calls + 1
  /\ LET l == [IdleLocals EXCEPT !.op = "UpdateStock", !.userID = sellerID,
                                 !.productID = productID, !.stock0 = stock]
     IN IF productID \notin ProductIDs
        THEN /\ pc' = [pc EXCEPT ![w] = "idle"]
             /\ loc' = [loc EXCEPT ![w] = Returned(l, "ProductNotFound")]
        ELSE IF SellerID[productID] # sellerID
        THEN /\ pc' = [pc EXCEPT ![w] = "idle"]
             /\ loc' = [loc EXCEPT ![w] = Returned(l, "Unauthorized")]
        ELSE IF action = "reduce" /\ ~HasStock(stock[productID], quantity)
        THEN /\ pc' = [pc EXCEPT ![w] = "idle"]
             /\ loc' = [loc EXCEPT ![w] = Returned(l, "InsufficientStock")]
        ELSE /\ pc' = [pc EXCEPT ![w] = "su_save"]
             /\ loc' = [loc EXCEPT ![w] =
                  [l EXCEPT !.readStock = stock[productID],
                            !.product = [stock |-> IF action = "add"
                                                   THEN stock[productID] + quantity
                                                   ELSE stock[productID] - quantity,
                                         price |-> price[productID]]]]
  /\ UNCHANGED <<authVars, price, stock, orders, payments, resolved, faults, quiet, before>>

\* productRepo.Update(product)
SellerUpdateStockSave(w) ==
  /\ pc[w] = "su_save"
  /\ stock' = SaveProductStock(loc[w].productID, loc[w].product)
  /\ price' = SaveProductPrice(loc[w].productID, loc[w].product)
  /\ loc' = [loc EXCEPT ![w] = Returned(loc[w], "OK")]
  /\ pc' = [pc EXCEPT ![w] = "idle"]
  /\ quiet' = Disturb(0)
  /\ UNCHANGED <<authVars, orders, payments, resolved, calls, faults, before>>

\* ctx.ShouldBindJSON into UpdateProductRequest.Stock, an int: a member that
\* is absent leaves the field at its zero value
BindStock(field) == IF field.present THEN field.value ELSE 0

\* ProductHandler.UpdateProduct and productService.UpdateProduct up to
\* productRepo.Update: the binding of the body, FindByID, IsOwner and the
\* fields copied from the request.  req.Price > 0 replaces the price;
\* req.Stock >= 0 replaces the stock.
UpdateProduct(w, sellerID, productID, reqPrice, stockField) ==
  /\ pc[w] = "idle"
  /\ calls' = calls + 1
  /\ LET reqStock == BindStock(stockField)
         l == [IdleLocals EXCEPT !.op = "UpdateProduct", !.userID = sellerID,
                                 !.productID = productID, !.stock0 = stock,
                                 !.stockSupplied = stockField.present]
     IN IF productID \notin ProductIDs
        THEN /\ pc' = [pc EXCEPT ![w] = "idle"]
             /\ loc' = [loc EXCEPT ![w] = Returned(l, "ProductNotFound")]
        ELSE IF SellerID[productID] # sellerID
        THEN /\ pc' = [pc EXCEPT ![w] = "idle"]
             /\ loc' = [loc EXCEPT ![w] = Returned(l, "Unauthorized")]
        ELSE /\ pc' = [pc EXCEPT ![w] = "up_save"]
             /\ loc' = [loc EXCEPT ![w] =
                  [l EXCEPT !.readStock = stock[productID],
                            !.product = [stock |-> IF reqStock >= 0 THEN reqStock
                                                   ELSE stock[productID],
                                         price |-> IF reqPrice > 0 THEN reqPrice
                                                   ELSE price[productID]]]]
  /\ UNCHANGED <<authVars, price, stock, orders, payments, resolved, faults, quiet, before>>

\* productRepo.Update(product)
UpdateProductSaveReprices(w) ==
  /\ pc[w] = "up_save"
  /\ stock' = SaveProductStock(loc[w].productID, loc[w].product)
  /\ price' = SaveProductPrice(loc[w].productID, loc[w].product)
  /\ orders' = [o \in DOMAIN orders |->
       [orders[o] EXCEPT !.items = [i \in DOMAIN @ |->
          IF @[i].productID = loc[w].productID
          THEN [@[i] EXCEPT !.price = loc[w].product.price] ELSE @[i]]]]
  /\ loc' = [loc EXCEPT ![w] = Returned(loc[w], "OK")]
  /\ pc' = [pc EXCEPT ![w] = "idle"]
  /\ quiet' = Disturb(0)
  /\ UNCHANGED <<authVars, payments, resolved, calls, faults, before>>

\* productRepo.Update(product)
UpdateProductSave(w) ==
  /\ pc[w] = "up_save"
  /\ stock' = SaveProductStock(loc[w].productID, loc[w].product)
  /\ price' = SaveProductPrice(loc[w].productID, loc[w].product)
  /\ loc' = [loc EXCEPT ![w] = Returned(loc[w], "OK")]
  /\ pc' = [pc EXCEPT ![w] = "idle"]
  /\ quiet' = Disturb(0)
  /\ UNCHANGED <<authVars, orders, payments, resolved, calls, faults, before>>

\* --------------------------------------------------------------- MarkAsPaid
\* a handler ends: a request returns to its caller, a goroutine is gone
Finish(p, l, result) ==
  /\ pc' = [pc EXCEPT ![p] = IF p \in Workers THEN "idle" ELSE "done"]
  /\ loc' = [loc EXCEPT ![p] = Returned(l, result)]

\* orderService.MarkAsPaid, first half, with a caller that undoes the payment
\* when the order cannot be marked paid
MarkAsPaidFindUndoesPayment(p) ==
  /\ pc[p] = "mp_find"
  /\ LET l == loc[p]
         orderID == l.payment.orderID
     IN IF orderID \notin DOMAIN orders \/ ~IsPending(orders[orderID])
        THEN /\ Finish(p, l, "InvalidStatus")
             /\ payments' = SavePayment(payments, l.paymentID,
                                        [l.payment EXCEPT !.status = PaymentStatusPending,
                                                          !.paidAt = FALSE])
        ELSE /\ pc' = [pc EXCEPT ![p] = "mp_update"]
             /\ loc' = [loc EXCEPT ![p] = [l EXCEPT !.order = orders[orderID]]]
             /\ UNCHANGED payments
  /\ UNCHANGED <<authVars, price, stock, orders, resolved, calls, faults, quiet, before>>

\* orderService.MarkAsPaid, first half: FindByID and IsPending on the copy
MarkAsPaidFind(p) ==
  /\ pc[p] = "mp_find"
  /\ LET l == loc[p]
         orderID == l.payment.orderID
     IN IF orderID \notin DOMAIN orders
        THEN Finish(p, l, "OrderNotFound")
        ELSE IF ~IsPending(orders[orderID])
        THEN Finish(p, l, "InvalidStatus")
        ELSE /\ pc' = [pc EXCEPT ![p] = "mp_update"]
             /\ loc' = [loc EXCEPT ![p] = [l EXCEPT !.order = orders[orderID]]]
  /\ UNCHANGED <<authVars, price, stock, orders, payments, resolved, calls, faults, quiet, before>>

\* orderService.MarkAsPaid, second half: order.Status = PAID; orderRepo.Update
MarkAsPaidSave(p) ==
  /\ pc[p] = "mp_update"
  /\ LET l == loc[p]
     IN /\ orders' = SaveOrder(orders, l.payment.orderID,
                                [l.order EXCEPT !.status = OrderStatusPaid])
        /\ Finish(p, l, "OK")
  /\ UNCHANGED <<authVars, price, stock, payments, resolved, calls, faults, quiet, before>>

\* ------------------------------------------------------------ CreatePayment
\* orderService.GetOrder without the ownership check
GetOrderAnyOwner(tbl, userID, orderID) ==
  IF orderID \notin DOMAIN tbl THEN <<"OrderNotFound", NoOrder>>
  ELSE <<"", tbl[orderID]>>

\* orderService.GetOrder: <<error, order>>
GetOrder(tbl, userID, orderID) ==
  IF orderID \notin DOMAIN tbl THEN <<"OrderNotFound", NoOrder>>
  ELSE IF ~IsOwner(tbl[orderID], userID) THEN <<"Unauthorized", NoOrder>>
  ELSE <<"", tbl[orderID]>>

\* the order is the caller's, is PENDING, and every payment made for it so far
\* has FAILED
IsRetry(userID, orderID) ==
  /\ orderID \in DOMAIN orders
  /\ IsOwner(orders[orderID], userID)
  /\ IsPending(orders[orderID])
  /\ \E k \in DOMAIN payments : payments[k].orderID = orderID
  /\ \A k \in DOMAIN payments : payments[k].orderID = orderID => IsFailed(payments[k])

CreatePaymentsStarted ==
  Len(payments) + Cardinality({w \in Workers : pc[w] \in {"cp_find", "cp_order", "cp_create"}})

\* paymentService.CreatePayment, entry: the method check
CreatePayment(w, userID, orderID, method) ==
  /\ pc[w] = "idle"
  /\ CreatePaymentsStarted < Cardinality(PaymentIDs)
  /\ calls' = calls + 1
  /\ LET l == [IdleLocals EXCEPT !.op = "CreatePayment", !.userID = userID,
                                 !.orderID = orderID, !.method = method,
                                 !.retry = IsRetry(userID, orderID)]
     IN IF ~IsValidMethod(method)
        THEN /\ pc' = [pc EXCEPT ![w] = "idle"]
             /\ loc' = [loc EXCEPT ![w] = Returned(l, "InvalidPaymentMethod")]
        ELSE /\ pc' = [pc EXCEPT ![w] = "cp_find"]
             /\ loc' = [loc EXCEPT ![w] = l]
  /\ UNCHANGED <<authVars, price, stock, orders, payments, resolved, faults, quiet, before>>

\* existingPayment := FindByOrderID(req.OrderID) and the IsFailed check
CreatePaymentFindExisting(w) ==
  /\ pc[w] = "cp_find"
  /\ LET l == loc[w]
         existing == FindByOrderID(payments, l.orderID)
     IN IF existing # 0 /\ ~IsFailed(payments[existing])
        THEN /\ pc' = [pc EXCEPT ![w] = "idle"]
             /\ loc' = [loc EXCEPT ![w] = Returned(l, "PaymentAlreadyExists")]
        ELSE /\ pc' = [pc EXCEPT ![w] = "cp_order"]
             /\ loc' = loc
  /\ UNCHANGED <<authVars, price, stock, orders, payments, resolved, calls, faults, quiet, before>>

\* order := orderService.GetOrder(userID, req.OrderID) and the status check
CreatePaymentGetOrder(w) ==
  /\ pc[w] = "cp_order"
  /\ LET l == loc[w]
         got == GetOrder(orders, l.userID, l.orderID)
     IN IF got[1] # ""
        THEN /\ pc' = [pc EXCEPT ![w] = "idle"]
             /\ loc' = [loc EXCEPT ![w] = Refused(l, "OrderNotFound")]
        ELSE IF got[2].status # "PENDING"
        THEN /\ pc' = [pc EXCEPT ![w] = "idle"]
             /\ loc' = [loc EXCEPT ![w] = Returned(l, "OrderNotPending")]
        ELSE /\ pc' = [pc EXCEPT ![w] = "cp_create"]
             /\ loc' = [loc EXCEPT ![w] = [l EXCEPT !.totalAmount = got[2].totalAmount]]
  /\ UNCHANGED <<authVars, price, stock, orders, payments, resolved, calls, faults, quiet, before>>

\* paymentRepo.Create(payment) on a table whose transaction_id column has no
\* unique index
CreatePaymentInsertNoIndex(w, transactionID) ==
  /\ pc[w] = "cp_create"
  /\ LET l == loc[w]
         id == Len(payments) + 1
         payment == NewPayment(l.orderID, l.userID, l.totalAmount, l.method, transactionID)
     IN /\ payments' = Append(payments, payment)
        /\ resolved' = Append(resolved, 0)
        /\ pc' = [pc EXCEPT ![w] = "idle", ![TaskOf(id)] = "pa_find"]
        /\ loc' = [loc EXCEPT
                     ![w] = [Returned(l, "OK") EXCEPT !.paymentID = id,
                                                      !.transactionID = transactionID],
                     ![TaskOf(id)] = [IdleLocals EXCEPT !.op = "Settle",
                                                        !.paymentID = id,
                                                        !.transactionID = transactionID]]
  /\ UNCHANGED <<authVars, price, stock, orders, calls, faults, quiet, before>>

\* transactionID := generateTransactionID(); paymentRepo.Create(payment);
\* go processPaymentAsync(payment.ID, transactionID).  The column has a unique
\* index: an id already in the table makes Create fail.
CreatePaymentInsert(w, transactionID) ==
  /\ pc[w] = "cp_create"
  /\ LET l == loc[w]
         id == Len(payments) + 1
         payment == NewPayment(l.orderID, l.userID, l.totalAmount, l.method, transactionID)
     IN IF FindByTransactionID(payments, transactionID) # 0
        THEN /\ pc' = [pc EXCEPT ![w] = "idle"]
             /\ loc' = [loc EXCEPT ![w] = Returned(l, "DBError")]
             /\ UNCHANGED <<payments, resolved>>
        ELSE /\ payments' = Append(payments, payment)
             /\ resolved' = Append(resolved, 0)
             /\ pc' = [pc EXCEPT ![w] = "idle", ![TaskOf(id)] = "pa_find"]
             /\ loc' = [loc EXCEPT
                          ![w] = [Returned(l, "OK") EXCEPT !.paymentID = id,
                                                           !.transactionID = transactionID],
                          ![TaskOf(id)] = [IdleLocals EXCEPT !.op = "Settle",
                                                             !.paymentID = id,
                                                             !.transactionID = transactionID]]
  /\ UNCHANGED <<authVars, price, stock, orders, calls, faults, quiet, before>>

\* ------------------------------------------------------ processPaymentAsync
\* payment := paymentRepo.FindByID(paymentID)
SettleFind(t) ==
  /\ pc[t] = "pa_find"
  /\ loc' = [loc EXCEPT ![t].payment = payments[loc[t].paymentID]]
  /\ pc' = [pc EXCEPT ![t] = "pa_mark"]
  /\ UNCHANGED <<authVars, price, stock, orders, payments, resolved, calls, faults, quiet, before>>

\* payment.MarkAsProcessing(); paymentRepo.Update(payment)
SettleMarkProcessing(t) ==
  /\ pc[t] = "pa_mark"
  /\ LET copy == MarkAsProcessing(loc[t].payment)
     IN /\ payments' = SavePayment(payments, loc[t].paymentID, copy)
        /\ loc' = [loc EXCEPT ![t].payment = copy]
  /\ pc' = [pc EXCEPT ![t] = "pa_sleep"]
  /\ UNCHANGED <<authVars, price, stock, orders, resolved, calls, faults, quiet, before>>

\* after the sleep, isSuccess: MarkAsSuccess, Update, then MarkAsPaid
SettleSuccess(t) ==
  /\ pc[t] = "pa_sleep"
  /\ LET copy == MarkAsSuccess(loc[t].payment)
     IN /\ payments' = SavePayment(payments, loc[t].paymentID, copy)
        /\ loc' = [loc EXCEPT ![t].payment = copy]
  /\ resolved' = Resolve(loc[t].paymentID)
  /\ pc' = [pc EXCEPT ![t] = "mp_find"]
  /\ UNCHANGED <<authVars, price, stock, orders, calls, faults, quiet, before>>

\* after the sleep, not isSuccess: MarkAsFailed, Update
SettleFailure(t) ==
  /\ pc[t] = "pa_sleep"
  /\ LET copy == MarkAsFailed(loc[t].payment, GatewayDeclined)
     IN /\ payments' = SavePayment(payments, loc[t].paymentID, copy)
        /\ Finish(t, loc[t], "OK")
  /\ resolved' = Resolve(loc[t].paymentID)
  /\ UNCHANGED <<authVars, price, stock, orders, calls, faults, quiet, before>>

\* --------------------------------------------------- ProcessPaymentCallback
\* paymentService.ProcessPaymentCallback up to the status branch:
\* FindByTransactionID and the IsSuccess / IsFailed check on the copy read
ProcessPaymentCallback(w, transactionID, status, failedReason) ==
  /\ pc[w] = "idle"
  /\ calls' = calls + 1
  /\ LET id == FindByTransactionID(payments, transactionID)
         l == [IdleLocals EXCEPT !.op = "ProcessPaymentCallback",
                                 !.transactionID = transactionID,
                                 !.status = status, !.reason = failedReason,
                                 !.paymentID = id]
     IN IF id = 0
        THEN /\ pc' = [pc EXCEPT ![w] = "idle"]
             /\ loc' = [loc EXCEPT ![w] = Returned(l, "PaymentNotFound")]
        ELSE IF IsSuccess(payments[id]) \/ IsFailed(payments[id])
        THEN /\ pc' = [pc EXCEPT ![w] = "idle"]
             /\ loc' = [loc EXCEPT ![w] = Returned(l, "PaymentAlreadyProcessed")]
        ELSE /\ pc' = [pc EXCEPT ![w] = "cb_update"]
             /\ loc' = [loc EXCEPT ![w] = [l EXCEPT !.payment = payments[id]]]
  /\ UNCHANGED <<authVars, price, stock, orders, payments, resolved, faults, quiet, before>>

\* the status branch: MarkAsSuccess or MarkAsFailed, then paymentRepo.Update
CallbackUpdate(w) ==
  /\ pc[w] = "cb_update"
  /\ LET l == loc[w]
     IN IF l.status = "SUCCESS"
        THEN LET copy == MarkAsSuccess(l.payment)
             IN /\ payments' = SavePayment(payments, l.paymentID, copy)
                /\ loc' = [loc EXCEPT ![w].payment = copy]
                /\ pc' = [pc EXCEPT ![w] = "mp_find"]
        ELSE /\ payments' = SavePayment(payments, l.paymentID, MarkAsFailed(l.payment, l.reason))
             /\ Finish(w, l, "OK")
  /\ resolved' = Resolve(loc[w].paymentID)
  /\ UNCHANGED <<authVars, price, stock, orders, calls, faults, quiet, before>>

\* ------------------------------------------------- reads of single records
\* OrderHandler.GetOrder: orderService.GetOrder for the authenticated user
OrderHandlerGetOrder(w, userID, orderID) ==
  /\ pc[w] = "idle"
  /\ calls' = calls + 1
  /\ LET l == [IdleLocals EXCEPT !.op = "GetOrder", !.userID = userID]
         got == GetOrder(orders, userID, orderID)
     IN loc' = [loc EXCEPT ![w] =
          IF got[1] # "" THEN Refused(l, got[1])
          ELSE Refused([l EXCEPT !.orderID = orderID, !.order = got[2]], "OK")]
  /\ UNCHANGED <<authVars, price, stock, orders, payments, resolved, pc, faults, quiet, before>>

\* paymentService.GetPayment for the authenticated user
GetPayment(w, userID, paymentID) ==
  /\ pc[w] = "idle"
  /\ calls' = calls + 1
  /\ LET l == [IdleLocals EXCEPT !.op = "GetPayment", !.userID = userID]
     IN loc' = [loc EXCEPT ![w] =
          IF paymentID \notin DOMAIN payments THEN Refused(l, "PaymentNotFound")
          ELSE IF payments[paymentID].userID # userID THEN Refused(l, "Unauthorized")
          ELSE Refused([l EXCEPT !.paymentID = paymentID], "OK")]
  /\ UNCHANGED <<authVars, price, stock, orders, payments, resolved, pc, faults, quiet, before>>

\* PaymentHandler.GetPaymentByOrder and paymentService.GetPaymentByOrderID: the
\* handler reads the order id from the path and passes nothing else
GetPaymentByOrderID(w, userID, orderID) ==
  /\ pc[w] = "idle"
  /\ calls' = calls + 1
  /\ LET l == [IdleLocals EXCEPT !.op = "GetPaymentByOrderID", !.userID = userID]
         payment == FindByOrderID(payments, orderID)
     IN loc' = [loc EXCEPT ![w] =
          IF payment = 0 THEN Refused(l, "PaymentNotFound")
          ELSE Refused([l EXCEPT !.paymentID = payment], "OK")]
  /\ UNCHANGED <<authVars, price, stock, orders, payments, resolved, pc, faults, quiet, before>>

\* --------------------------------------------------------- tokens: auth
\* a Login has signed the token by now
Issued(token) == token.exp - TokenExpiry <= now

\* jwtService.ValidateToken: the signature is the service's, the token has
\* not expired
ValidateToken(token) == now < token.exp

\* authService.IsTokenBlacklisted.  Without a Redis client the answer is
\* false; a Get that fails with an error other than redis.Nil leaves
\* result empty, and the answer is false.
IsTokenBlacklisted(token, redisErr) ==
  IF ~redisClient THEN FALSE
  ELSE IF redisErr THEN FALSE
  ELSE token \in DOMAIN blacklist /\ blacklist[token] > now

\* AuthHandler.Logout and authService.Logout: Set "blacklist:<token>" with
\* the TTL GetTokenExpiry(); without a Redis client, nothing is stored and the
\* answer is 200 all the same
Logout(w, token, redisErr) ==
  /\ pc[w] = "idle"
  /\ Issued(token)
  /\ redisErr => redisClient /\ faults < MaxFaults
  /\ calls' = calls + 1
  /\ LET l == [IdleLocals EXCEPT !.op = "Logout", !.token = token]
     IN IF ~redisClient
        THEN /\ loc' = [loc EXCEPT ![w] = [l EXCEPT !.result = "OK"]]
             /\ loggedOut' = loggedOut \cup {token}
             /\ UNCHANGED <<blacklist, faults>>
        ELSE IF redisErr
        THEN /\ loc' = [loc EXCEPT ![w] = [l EXCEPT !.result = "InternalServerError"]]
             /\ faults' = faults + 1
             /\ UNCHANGED <<blacklist, loggedOut>>
        ELSE /\ blacklist' = [t \in DOMAIN blacklist \cup {token} |->
                               IF t = token THEN now + TokenExpiry ELSE blacklist[t]]
             /\ loc' = [loc EXCEPT ![w] = [l EXCEPT !.result = "OK"]]
             /\ loggedOut' = loggedOut \cup {token}
             /\ UNCHANGED faults
  /\ UNCHANGED <<price, stock, orders, payments, resolved, pc, quiet, before,
                 redisClient, now>>

\* middleware.AuthMiddleware on a request that carries the token
AuthMiddleware(w, token, redisErr) ==
  /\ pc[w] = "idle"
  /\ Issued(token)
  /\ redisErr => redisClient /\ faults < MaxFaults
  /\ calls' = calls + 1
  /\ faults' = IF redisErr THEN faults + 1 ELSE faults
  /\ LET l == [IdleLocals EXCEPT !.op = "AuthMiddleware", !.token = token]
     IN loc' = [loc EXCEPT ![w] =
          IF IsTokenBlacklisted(token, redisErr) THEN [l EXCEPT !.result = "TokenRevoked"]
          ELSE IF ~ValidateToken(token) THEN [l EXCEPT !.result = "InvalidToken"]
          ELSE [l EXCEPT !.result = "OK", !.userID = token.userID]]
  /\ UNCHANGED <<authVars, price, stock, orders, payments, resolved, pc, quiet, before>>

\* an hour passes
Tick ==
  /\ now < MaxTime
  /\ now' = now + 1
  /\ UNCHANGED <<price, stock, orders, payments, resolved, pc, loc, calls, faults,
                 quiet, before, redisClient, blacklist, loggedOut>>

\* ---------------------------------------------------------- specifications
\* the cart of the specifications that are not about carts
StatusCart == <<[productID |-> 1, quantity |-> 1]>>

CheckoutSteps(w) ==
  \/ CheckoutGetProduct(w)
  \/ ReduceStockFind(w)
  \/ ReduceStockUpdate(w)
  \/ CheckoutCommit(w)

CancelSteps(w) ==
  \/ CancelRestoreStock(w)
  \/ CancelCommit(w)

\* One request at a time, any checkout and any cancellation, with persistence
\* failures: every call returns before the next one starts.
SeqNext ==
  \/ calls < MaxCalls /\ \E u \in UserIDs, items \in CheckoutRequests : Checkout(1, u, items)
  \/ calls < MaxCalls /\ \E u \in UserIDs, o \in OrderIDs : CancelOrder(1, u, o)
  \/ CheckoutSteps(1)
  \/ CancelSteps(1)
  \/ CheckoutCommitFails(1)
  \/ CancelRestoreFails(1)
  \/ CancelCommitFails(1)
SeqSpec == Init /\ [][SeqNext]_vars

\* Two requests served at once, their statements interleaved, with no
\* persistence failure: one-line checkouts of existing products and any
\* cancellation.
ConcurrentCarts == {<<a>> : a \in [productID : ProductIDs, quantity : Quantities]}
Next ==
  \/ calls < MaxConcCalls
       /\ \E w \in Workers, u \in UserIDs, items \in ConcurrentCarts : Checkout(w, u, items)
  \/ calls < MaxConcCalls
       /\ \E w \in Workers, u \in UserIDs, o \in OrderIDs : CancelOrder(w, u, o)
  \/ \E w \in Workers : CheckoutSteps(w)
  \/ \E w \in Workers : CancelSteps(w)
Spec == Init /\ [][Next]_vars

\* The stock of product 1 under two requests served at once: checkouts and
\* cancellations of one-line carts of product 1, and its seller's stock and
\* product updates.
MaxStockCalls == 3
StockCarts == {<<[productID |-> 1, quantity |-> q]>> : q \in Quantities}
StockNext ==
  \/ calls < MaxStockCalls
       /\ \E w \in Workers, u \in UserIDs, items \in StockCarts : Checkout(w, u, items)
  \/ calls < MaxStockCalls
       /\ \E w \in Workers, u \in UserIDs, o \in OrderIDs : CancelOrder(w, u, o)
  \/ calls < MaxStockCalls
       /\ \E w \in Workers, u \in UserIDs, p \in RequestProductIDs,
             a \in StockActions, q \in Quantities : SellerUpdateStock(w, u, p, a, q)
  \/ calls < MaxStockCalls
       /\ \E w \in Workers, u \in UserIDs, p \in RequestProductIDs,
             rp \in RequestedPrices, rs \in RequestedStocks : UpdateProduct(w, u, p, rp, rs)
  \/ \E w \in Workers : CheckoutSteps(w)
  \/ \E w \in Workers : CancelSteps(w)
  \/ \E w \in Workers : SellerUpdateStockSave(w)
  \/ \E w \in Workers : UpdateProductSave(w)
StockSpec == Init /\ [][StockNext]_vars

\* Prices: one request at a time, any one-line checkout, any cancellation and
\* any product update by any user.
MaxPriceCalls == 3
PriceNext ==
  \/ calls < MaxPriceCalls
       /\ \E u \in UserIDs, items \in ConcurrentCarts : Checkout(1, u, items)
  \/ calls < MaxPriceCalls
       /\ \E u \in UserIDs, o \in OrderIDs : CancelOrder(1, u, o)
  \/ calls < MaxPriceCalls
       /\ \E u \in UserIDs, p \in RequestProductIDs,
             rp \in RequestedPrices, rs \in RequestedStocks : UpdateProduct(1, u, p, rp, rs)
  \/ CheckoutSteps(1)
  \/ CancelSteps(1)
  \/ UpdateProductSave(1)
PriceSpec == Init /\ [][PriceNext]_vars

\* Tokens: one request at a time, any logout and any authenticated request
\* with any token signed so far, the hours passing, Redis reachable or not
\* when main starts and failing at most MaxFaults times afterwards.
MaxAuthCalls == 3
AuthNext ==
  \/ calls < MaxAuthCalls /\ \E t \in Tokens, e \in BOOLEAN : Logout(1, t, e)
  \/ calls < MaxAuthCalls /\ \E t \in Tokens, e \in BOOLEAN : AuthMiddleware(1, t, e)
  \/ Tick
AuthInit ==
  /\ InitStore
  /\ stock = [p \in ProductIDs |-> MaxStock]
  /\ redisClient \in BOOLEAN
AuthSpec == AuthInit /\ [][AuthNext]_vars

\* Payments: two requests served at once and one settlement goroutine per
\* payment, their statements interleaved, with no persistence failure.
\* Checkouts are of one unit of product 1.
PayNext ==
  \/ calls < MaxPayCalls /\ \E w \in Workers, u \in UserIDs : Checkout(w, u, StatusCart)
  \/ calls < MaxPayCalls /\ \E w \in Workers, u \in UserIDs, o \in OrderIDs : CancelOrder(w, u, o)
  \/ calls < MaxPayCalls
       /\ \E w \in Workers, u \in UserIDs, o \in OrderIDs, m \in RequestedMethods :
            CreatePayment(w, u, o, m)
  \/ calls < MaxPayCalls
       /\ \E w \in Workers, x \in TransactionIDs, st \in CallbackStatuses, r \in CallbackReasons :
            ProcessPaymentCallback(w, x, st, r)
  \/ \E w \in Workers : CheckoutSteps(w)
  \/ \E w \in Workers : CancelSteps(w)
  \/ \E w \in Workers : CreatePaymentFindExisting(w)
  \/ \E w \in Workers : CreatePaymentGetOrder(w)
  \/ \E w \in Workers, x \in TransactionIDs : CreatePaymentInsert(w, x)
  \/ \E w \in Workers : CallbackUpdate(w)
  \/ \E k \in PaymentIDs : SettleFind(TaskOf(k))
  \/ \E k \in PaymentIDs : SettleMarkProcessing(TaskOf(k))
  \/ \E k \in PaymentIDs : SettleSuccess(TaskOf(k))
  \/ \E k \in PaymentIDs : SettleFailure(TaskOf(k))
  \/ \E p \in Procs : MarkAsPaidFind(p)
  \/ \E p \in Procs : MarkAsPaidSave(p)
PaySpec == Init /\ [][PayNext]_vars

\* Reads: one request at a time beside the settlement goroutines; checkouts
\* of one unit of product 1, payments by bank transfer, and reads of any
\* order or payment by any user.
MaxReadCalls == 3
ReadNext ==
  \/ calls < MaxReadCalls /\ \E u \in UserIDs : Checkout(1, u, StatusCart)
  \/ calls < MaxReadCalls
       /\ \E u \in UserIDs, o \in OrderIDs : CreatePayment(1, u, o, PaymentMethodBankTransfer)
  \/ calls < MaxReadCalls /\ \E u \in UserIDs, o \in OrderIDs : OrderHandlerGetOrder(1, u, o)
  \/ calls < MaxReadCalls /\ \E u \in UserIDs, k \in PaymentIDs : GetPayment(1, u, k)
  \/ calls < MaxReadCalls /\ \E u \in UserIDs, o \in OrderIDs : GetPaymentByOrderID(1, u, o)
  \/ CheckoutSteps(1)
  \/ CreatePaymentFindExisting(1)
  \/ CreatePaymentGetOrder(1)
  \/ \E x \in TransactionIDs : CreatePaymentInsert(1, x)
  \/ \E k \in PaymentIDs : SettleFind(TaskOf(k))
  \/ \E k \in PaymentIDs : SettleMarkProcessing(TaskOf(k))
  \/ \E k \in PaymentIDs : SettleSuccess(TaskOf(k))
  \/ \E k \in PaymentIDs : SettleFailure(TaskOf(k))
  \/ \E p \in Procs : MarkAsPaidFind(p)
  \/ \E p \in Procs : MarkAsPaidSave(p)
ReadSpec == Init /\ [][ReadNext]_vars

\* Payments with no cancellation, no status update and no persistence
\* failure: one request at a time beside the settlement goroutines, every
\* product fully stocked.  A request handler and a settlement goroutine that have started
\* run on to their end (the Go scheduler starves no goroutine, the sleep is
\* bounded); no request is ever bound to arrive.
Continue(p) ==
  \/ p \in Workers /\ CheckoutSteps(p)
  \/ p \in Workers /\ CreatePaymentFindExisting(p)
  \/ p \in Workers /\ CreatePaymentGetOrder(p)
  \/ p \in Workers /\ \E x \in TransactionIDs : CreatePaymentInsert(p, x)
  \/ p \in Workers /\ CallbackUpdate(p)
  \/ SettleFind(p)
  \/ SettleMarkProcessing(p)
  \/ SettleSuccess(p)
  \/ SettleFailure(p)
  \/ MarkAsPaidFind(p)
  \/ MarkAsPaidSave(p)
PaidNext ==
  \/ calls < MaxPayCalls /\ \E u \in UserIDs : Checkout(1, u, StatusCart)
  \/ calls < MaxPayCalls
       /\ \E u \in UserIDs, o \in OrderIDs, m \in RequestedMethods : CreatePayment(1, u, o, m)
  \/ calls < MaxPayCalls
       /\ \E x \in TransactionIDs, st \in CallbackStatuses, r \in CallbackReasons :
            ProcessPaymentCallback(1, x, st, r)
  \/ \E p \in Procs : Continue(p)
PaidInit == Init /\ stock = [p \in ProductIDs |-> MaxStock]
PaidSpec == PaidInit /\ [][PaidNext]_vars /\ \A p \in Procs : WF_vars(Continue(p))

\* The same requests with only the settlement goroutines bound to run on: a
\* request handler may stall between its statements for ever.
SettleSpec ==
  PaidInit /\ [][PaidNext]_vars /\ \A k \in PaymentIDs : WF_vars(Continue(TaskOf(k)))

\* The life of an order: one request at a time and the settlement goroutines
\* running between and during the requests, with no persistence failure.
\* Status updates are an admin's; payments are by bank transfer.
\* The carts have different totals: 5, 13 and 6.
LifeCarts ==
  {<<[productID |-> 1, quantity |-> 1]>>,
   <<[productID |-> 1, quantity |-> 2], [productID |-> 2, quantity |-> 1]>>,
   <<[productID |-> 2, quantity |-> 1], [productID |-> 2, quantity |-> 1]>>}
LifeNext ==
  \/ calls < MaxLifeCalls /\ \E u \in UserIDs, items \in LifeCarts : Checkout(1, u, items)
  \/ calls < MaxLifeCalls /\ \E u \in UserIDs, o \in OrderIDs : CancelOrder(1, u, o)
  \/ calls < MaxLifeCalls
       /\ \E o \in OrderIDs, st \in OrderStatuses : UpdateOrderStatus(1, 1, o, st, TRUE)
  \/ calls < MaxLifeCalls
       /\ \E u \in UserIDs, o \in OrderIDs : CreatePayment(1, u, o, PaymentMethodBankTransfer)
  \/ calls < MaxLifeCalls
       /\ \E x \in TransactionIDs, st \in CallbackStatuses, r \in CallbackReasons :
            ProcessPaymentCallback(1, x, st, r)
  \/ CheckoutSteps(1)
  \/ CancelSteps(1)
  \/ UpdateOrderStatusSave(1)
  \/ CreatePaymentFindExisting(1)
  \/ CreatePaymentGetOrder(1)
  \/ \E x \in TransactionIDs : CreatePaymentInsert(1, x)
  \/ CallbackUpdate(1)
  \/ \E k \in PaymentIDs : SettleFind(TaskOf(k))
  \/ \E k \in PaymentIDs : SettleMarkProcessing(TaskOf(k))
  \/ \E k \in PaymentIDs : SettleSuccess(TaskOf(k))
  \/ \E k \in PaymentIDs : SettleFailure(TaskOf(k))
  \/ \E p \in Procs : MarkAsPaidFind(p)
  \/ \E p \in Procs : MarkAsPaidSave(p)
\* every product fully stocked
LifeInit == Init /\ stock = [p \in ProductIDs |-> MaxStock]
LifeSpec == LifeInit /\ [][LifeNext]_vars

\* One request at a time: checkouts of one unit of product 1, and any status
\* update by any user on any order id, long enough to walk an order to
\* COMPLETED and ask for more.
StatusNext ==
  \/ calls < MaxStatusCalls /\ \E u \in UserIDs : Checkout(1, u, StatusCart)
  \/ CheckoutSteps(1)
  \/ calls < MaxStatusCalls
       /\ \E u \in UserIDs, o \in OrderIDs, st \in RequestedStatuses, a \in BOOLEAN :
            UpdateOrderStatus(1, u, o, st, a)
  \/ UpdateOrderStatusSave(1)
  \/ UpdateOrderStatusSaveFails(1)
StatusSpec == Init /\ [][StatusNext]_vars

\* The same, and any cancellation by any user of any order id: orders in
\* every status meet CancelOrder.
CancelStatusNext ==
  \/ StatusNext
  \/ calls < MaxStatusCalls /\ \E u \in UserIDs, o \in OrderIDs : CancelOrder(1, u, o)
  \/ CancelSteps(1)
CancelStatusSpec == Init /\ [][CancelStatusNext]_vars

\* ------------------------------------------------------------------ claims
ReturnedFrom(w, op) == pc[w] = "idle" /\ loc[w].op = op

\* C1: once a Checkout has returned ProductNotFound or InsufficientStock, every
\* product's stock equals its value before the call and the call left no order.
C1_CheckoutAllOrNothing ==
  \A w \in Workers :
    ReturnedFrom(w, "Checkout") /\ loc[w].result \in {"ProductNotFound", "InsufficientStock"}
      => /\ \A p \in ProductIDs : stock[p] = loc[w].stock0[p]
         /\ Len(orders) = loc[w].nOrders0

\* C2: every payment has at most one terminal status written to it, whichever
\* of its settlement goroutine and the callbacks for its transaction id run.
C2_ExactlyOnceResolution == \A k \in DOMAIN resolved : resolved[k] <= 1

\* C3: with one call at a time, after any sequence of Checkout and CancelOrder
\* calls no product's stock is below zero.
C3_StockNonNegative == \A p \in ProductIDs : stock[p] >= 0

\* a checkout took the last units of a product and the order's cancellation
\* gave them back
C3_Witness ==
  /\ Len(orders) = 1
  /\ orders[1].status = OrderStatusCancelled
  /\ ReturnedFrom(1, "CancelOrder") /\ loc[1].result = "OK"
  /\ \E p \in ProductIDs : loc[1].stock0[p] = 0 /\ stock[p] = before[1][p] /\ stock[p] > 0

\* C4: the reservation is one atomic check-and-decrement: no product's stock is
\* ever below zero, and of two Checkout calls that began on the same stock and
\* both succeeded, the quantities taken of a product they share fit in that stock.
C4_AtomicReservation ==
  /\ \A p \in ProductIDs : ~(stock[p] < 0)
  /\ \A w1, w2 \in Workers :
       /\ w1 # w2
       /\ ReturnedFrom(w1, "Checkout") /\ loc[w1].result = "OK"
       /\ ReturnedFrom(w2, "Checkout") /\ loc[w2].result = "OK"
       /\ loc[w1].stock0 = loc[w2].stock0
       => \A p \in ProductIDs :
            loc[w1].taken[p] > 0 /\ loc[w2].taken[p] > 0
              => loc[w1].taken[p] + loc[w2].taken[p] <= loc[w1].stock0[p]

\* C5: in every state each order has at most one payment that is not FAILED.
LivePayments(orderID) ==
  {k \in DOMAIN payments : payments[k].orderID = orderID /\ ~IsFailed(payments[k])}

C5_OneLivePayment == \A o \in OrderIDs : Cardinality(LivePayments(o)) <= 1

\* C6: when CancelOrder has cancelled an order and no other call changed any
\* stock since that order's checkout began, every product's stock equals its
\* value before that checkout.
C6_CancelRestoresStock ==
  \A w \in Workers :
    ReturnedFrom(w, "CancelOrder") /\ loc[w].result = "OK" /\ quiet[loc[w].orderID]
      => \A p \in ProductIDs : stock[p] = before[loc[w].orderID][p]

\* a two-line order over both products, one line of quantity 2, was cancelled
C6_Witness ==
  \E w \in Workers :
    /\ ReturnedFrom(w, "CancelOrder") /\ loc[w].result = "OK" /\ quiet[loc[w].orderID]
    /\ LET items == orders[loc[w].orderID].items
       IN /\ Len(items) = 2
          /\ items[1].productID # items[2].productID
          /\ items[1].quantity = 2
    /\ orders[loc[w].orderID].status = OrderStatusCancelled

\* C7: a step that makes an order's persisted status PAID finds it PENDING; in
\* particular an order persisted as CANCELLED never becomes PAID.
C7_PaidOnlyFromPending ==
  [][\A o \in DOMAIN orders :
       orders'[o].status = OrderStatusPaid /\ orders[o].status # OrderStatusPaid
         => orders[o].status = OrderStatusPending]_vars

\* C8: a payment's persisted status changes only from PENDING to PROCESSING or
\* from PENDING or PROCESSING to SUCCESS or FAILED; SUCCESS and FAILED stay.
ForwardEdges ==
  {<<PaymentStatusPending, PaymentStatusProcessing>>,
   <<PaymentStatusPending, PaymentStatusSuccess>>,
   <<PaymentStatusPending, PaymentStatusFailed>>,
   <<PaymentStatusProcessing, PaymentStatusSuccess>>,
   <<PaymentStatusProcessing, PaymentStatusFailed>>}

C8_StatusOnlyForward ==
  [][\A k \in DOMAIN payments :
       payments'[k].status # payments[k].status
         => <<payments[k].status, payments'[k].status>> \in ForwardEdges]_vars

\* the edges of the order status machine
LegalEdges ==
  {<<"PENDING", "PAID">>, <<"PAID", "SHIPPED">>, <<"SHIPPED", "COMPLETED">>,
   <<"PENDING", "CANCELLED">>}

\* C9: an UpdateOrderStatus call that reaches Order.UpdateStatus (the order
\* exists and the caller may touch it) returns InvalidStatus exactly when
\* (current, requested) is not one of the four legal edges; when it succeeds the
\* order has the requested status, and otherwise the order's status is the one
\* it had.
C9_TransitionValidity ==
  \A w \in Workers :
    ReturnedFrom(w, "UpdateOrderStatus") /\ loc[w].result \in {"OK", "InvalidStatus", "DBError"}
      => LET l == loc[w]
             legal == <<l.status0, l.status>> \in LegalEdges
         IN /\ (l.result = "InvalidStatus") <=> ~legal
            /\ orders[l.orderID].status = IF l.result = "OK" THEN l.status ELSE l.status0

\* a COMPLETED order was asked to go back to PENDING and the call was refused
C9_Witness ==
  \E w \in Workers :
    /\ ReturnedFrom(w, "UpdateOrderStatus")
    /\ loc[w].status0 = OrderStatusCompleted
    /\ loc[w].status = OrderStatusPending
    /\ loc[w].result = "InvalidStatus"

\* C10: once CancelOrder has returned a persistence error, the order is still
\* PENDING and every product's stock equals its value before the call.
C10_CancelAtomic ==
  \A w \in Workers :
    ReturnedFrom(w, "CancelOrder") /\ loc[w].result = "DBError"
      => /\ orders[loc[w].orderID].status = OrderStatusPending
         /\ \A p \in ProductIDs : stock[p] = loc[w].stock0[p]

\* C11: every order row, from the step that creates it on, has totalAmount equal
\* to the sum of its items' subtotals, each subtotal being the product's price
\* times the line's quantity, and no step changes an existing order's
\* totalAmount or items.
TotalMatchesItems(order) ==
  /\ order.totalAmount = CalculateTotal(order)
  /\ \A i \in DOMAIN order.items :
       /\ order.items[i].price = Price[order.items[i].productID]
       /\ order.items[i].subtotal = order.items[i].price * order.items[i].quantity

C11_TotalInvariant ==
  [][\A o \in DOMAIN orders' :
       /\ TotalMatchesItems(orders'[o])
       /\ o \in DOMAIN orders
            => /\ orders'[o].totalAmount = orders[o].totalAmount
               /\ orders'[o].items = orders[o].items]_vars

\* a two-line order was paid through a settled payment and then shipped
C11_Witness ==
  /\ Len(orders) >= 1
  /\ Len(orders[1].items) = 2
  /\ orders[1].items[1].quantity = 2
  /\ orders[1].status = OrderStatusShipped
  /\ \E k \in DOMAIN payments : payments[k].orderID = 1 /\ IsSuccess(payments[k])

\* C12: in every state every payment references an existing order and its
\* amount is that order's totalAmount.
C12_AmountIsOrderTotal ==
  \A k \in DOMAIN payments :
    /\ payments[k].orderID \in DOMAIN orders
    /\ payments[k].amount = orders[payments[k].orderID].totalAmount

\* two orders of different totals, and a settled payment for the second
C12_Witness ==
  /\ Len(orders) = 2
  /\ orders[1].totalAmount # orders[2].totalAmount
  /\ \E k \in DOMAIN payments :
       /\ payments[k].orderID = 2
       /\ payments[k].status \in {PaymentStatusSuccess, PaymentStatusFailed}

\* C13: a status written by UpdateOrderStatus is never PAID; written for a
\* caller who is not an admin it is CANCELLED, on the caller's own order.
C13_UserOnlyCancels ==
  [][\A w \in Workers :
       pc[w] = "us_update" /\ orders' # orders
         => LET written == orders'[loc[w].orderID].status
            IN /\ written # OrderStatusPaid
               /\ ~loc[w].isAdmin
                    => /\ written = OrderStatusCancelled
                       /\ IsOwner(orders[loc[w].orderID], loc[w].userID)]_vars

\* C14: a ProcessPaymentCallback call that finds its payment SUCCESS or FAILED
\* returns PaymentAlreadyProcessed at once and writes no payment and no order.
C14_TerminalCallbackRefused ==
  [][\A w \in Workers :
       LET k == FindByTransactionID(payments, loc'[w].transactionID)
       IN /\ pc[w] = "idle"
          /\ calls' = calls + 1
          /\ loc'[w] # loc[w]
          /\ loc'[w].op = "ProcessPaymentCallback"
          /\ k # 0
          /\ payments[k].status \in {PaymentStatusSuccess, PaymentStatusFailed}
          => /\ pc'[w] = "idle"
             /\ loc'[w].result = "PaymentAlreadyProcessed"
             /\ payments' = payments
             /\ orders' = orders]_vars

\* a callback was refused on a settled payment whose order is paid
C14_Witness ==
  \E w \in Workers :
    /\ ReturnedFrom(w, "ProcessPaymentCallback")
    /\ loc[w].result = "PaymentAlreadyProcessed"
    /\ loc[w].paymentID \in DOMAIN payments
    /\ IsSuccess(payments[loc[w].paymentID])
    /\ payments[loc[w].paymentID].paidAt
    /\ orders[payments[loc[w].paymentID].orderID].status = OrderStatusPaid

\* C15: a CreatePayment call writes nothing before its insert: the entry, the
\* look-up of an existing payment and the look-up of the order leave the
\* payments, the orders and the settlement goroutines as they were, and so
\* does a refused insert.  The entry refuses exactly the unknown methods with
\* InvalidPaymentMethod; the first look-up refuses with PaymentAlreadyExists
\* only when the order has a payment that is not FAILED; the second refuses
\* with OrderNotFound exactly when the order is missing or not the caller's,
\* and otherwise with OrderNotPending exactly when its status is not PENDING.
NothingCreated ==
  /\ payments' = payments
  /\ orders' = orders
  /\ \A k \in PaymentIDs : pc'[TaskOf(k)] = pc[TaskOf(k)]

C15_RejectedCreatePayment ==
  [][\A w \in Workers :
       /\ pc[w] = "idle" /\ calls' = calls + 1 /\ loc'[w] # loc[w]
            /\ loc'[w].op = "CreatePayment"
            => /\ NothingCreated
               /\ pc'[w] = "idle" => loc'[w].result = "InvalidPaymentMethod"
               /\ pc'[w] # "idle"
                    => loc'[w].method \in {"BANK_TRANSFER", "CREDIT_CARD", "E_WALLET"}
       /\ pc[w] = "cp_find" /\ pc'[w] # "cp_find"
            => /\ NothingCreated
               /\ pc'[w] = "idle"
                    => /\ loc'[w].result = "PaymentAlreadyExists"
                       /\ \E k \in DOMAIN payments :
                            /\ payments[k].orderID = loc[w].orderID
                            /\ payments[k].status # PaymentStatusFailed
       /\ pc[w] = "cp_order" /\ pc'[w] # "cp_order"
            => /\ NothingCreated
               /\ LET o == loc[w].orderID
                  IN IF o \notin DOMAIN orders \/ orders[o].userID # loc[w].userID
                     THEN pc'[w] = "idle" /\ loc'[w].result = "OrderNotFound"
                     ELSE IF orders[o].status # OrderStatusPending
                     THEN pc'[w] = "idle" /\ loc'[w].result = "OrderNotPending"
                     ELSE pc'[w] = "cp_create"
       /\ pc[w] = "cp_create" /\ pc'[w] = "idle" /\ loc'[w].result # "OK"
            => NothingCreated]_vars

\* the owner's CreatePayment on a cancelled order was refused and no payment
\* row exists
C15_Witness ==
  \E w \in Workers :
    /\ ReturnedFrom(w, "CreatePayment")
    /\ loc[w].result = "OrderNotPending"
    /\ orders[loc[w].orderID].status = OrderStatusCancelled
    /\ payments = <<>>
    /\ \A k \in PaymentIDs : pc[TaskOf(k)] = "idle"

\* C16: a step that makes a payment FAILED gives it a failure reason and
\* changes no order; and a CreatePayment that began when the order was the
\* caller's, PENDING, and had only FAILED payments does not end refused: it
\* adds a PENDING payment for that order (or the insert itself fails).
C16_RetryAfterFailure ==
  [][/\ \A k \in DOMAIN payments :
          payments'[k].status = PaymentStatusFailed /\ payments[k].status # PaymentStatusFailed
            => payments'[k].failedReason # "" /\ orders' = orders
     /\ \A w \in Workers :
          pc[w] \in {"cp_find", "cp_order", "cp_create"} /\ pc'[w] = "idle" /\ loc[w].retry
            => \/ loc'[w].result = "DBError"
               \/ /\ loc'[w].result = "OK"
                  /\ Len(payments') = Len(payments) + 1
                  /\ payments'[Len(payments')].orderID = loc[w].orderID
                  /\ payments'[Len(payments')].status = PaymentStatusPending]_vars

\* C17: with no cancellation and no persistence failure, a payment whose status
\* is SUCCESS has its paid-at set, and once a payment is SUCCESS its order's
\* status is eventually PAID.
C17_SuccessLeadsToPaid ==
  /\ [](\A k \in DOMAIN payments : IsSuccess(payments[k]) => payments[k].paidAt)
  /\ \A k \in PaymentIDs :
       (k \in DOMAIN payments /\ IsSuccess(payments[k]))
         ~> (k \in DOMAIN payments /\ orders[payments[k].orderID].status = OrderStatusPaid)

\* a settlement goroutine resolved its payment to SUCCESS and marked the order
\* paid
C17_Witness ==
  \E k \in DOMAIN payments :
    /\ IsSuccess(payments[k]) /\ payments[k].paidAt
    /\ pc[TaskOf(k)] = "done" /\ loc[TaskOf(k)].result = "OK"
    /\ orders[payments[k].orderID].status = OrderStatusPaid

\* C18: the step in which MarkAsPaid fails, after its caller wrote SUCCESS to
\* the payment, writes no payment and no order; the failure is the outcome of
\* the caller, whose payment stays as it was.
C18_PaymentKeptWhenOrderFails ==
  [][\A p \in Procs :
       pc[p] = "mp_find" /\ pc'[p] \in {"idle", "done"}
         => /\ loc'[p].result \in {"InvalidStatus", "OrderNotFound"}
            /\ payments' = payments
            /\ orders' = orders]_vars

\* a settlement goroutine found the order cancelled: the payment is SUCCESS
\* with its paid-at, the order is still CANCELLED
C18_Witness ==
  \E k \in DOMAIN payments :
    /\ pc[TaskOf(k)] = "done" /\ loc[TaskOf(k)].result = "InvalidStatus"
    /\ IsSuccess(payments[k]) /\ payments[k].paidAt
    /\ orders[payments[k].orderID].status = OrderStatusCancelled

\* C19: a CancelOrder call on an existing order by a user who does not own it
\* returns Unauthorized, and by its owner while its status is not PENDING
\* returns OrderNotCancellable; either way the call writes no order and no
\* stock.  Only the owner's call on a PENDING order goes on to restore stock.
C19_CancelRefused ==
  [][\A w \in Workers :
       /\ pc[w] = "idle" /\ calls' = calls + 1 /\ loc'[w] # loc[w]
       /\ loc'[w].op = "CancelOrder"
       /\ loc'[w].orderID \in DOMAIN orders
       => LET l == loc'[w]
              order == orders[l.orderID]
          IN IF order.userID # l.userID
             THEN /\ pc'[w] = "idle" /\ l.result = "Unauthorized"
                  /\ orders' = orders /\ stock' = stock
             ELSE IF order.status # OrderStatusPending
             THEN /\ pc'[w] = "idle" /\ l.result = "OrderNotCancellable"
                  /\ orders' = orders /\ stock' = stock
             ELSE pc'[w] = "cn_restore"]_vars

\* the owner's cancellation of a COMPLETED order was refused
C19_Witness ==
  \E w \in Workers :
    /\ ReturnedFrom(w, "CancelOrder")
    /\ loc[w].result = "OrderNotCancellable"
    /\ loc[w].status0 = OrderStatusCompleted
    /\ orders[loc[w].orderID].status = OrderStatusCompleted
    /\ loc[w].userID = orders[loc[w].orderID].userID

\* C20: with one call at a time, a Checkout whose lines all name existing
\* products, and ask of each product in total no more than its stock, is not
\* refused; and a Checkout that succeeds has added exactly one order: PENDING,
\* the caller's, with one item per request line in request order at the
\* product's price, its total the sum of price times quantity; and every
\* product's stock is its stock before the call less the quantity requested
\* of it.
RECURSIVE RequestedOf(_, _)
RequestedOf(items, p) ==
  IF items = <<>> THEN 0
  ELSE (IF items[1].productID = p THEN items[1].quantity ELSE 0) + RequestedOf(Tail(items), p)

RECURSIVE RequestTotal(_)
RequestTotal(items) ==
  IF items = <<>> THEN 0
  ELSE Price[items[1].productID] * items[1].quantity + RequestTotal(Tail(items))

InStock(items, s) ==
  /\ \A i \in DOMAIN items : items[i].productID \in ProductIDs
  /\ \A p \in ProductIDs : RequestedOf(items, p) <= s[p]

C20_CheckoutCreatesOrder ==
  [][\A w \in Workers :
       /\ pc[w] \in {"ck_get", "ck_find"} /\ pc'[w] = "idle"
            => ~InStock(loc[w].items, loc[w].stock0)
       /\ pc[w] = "ck_create" /\ pc'[w] = "idle" /\ loc'[w].result = "OK"
            => LET l == loc[w]
                   order == orders'[Len(orders')]
               IN /\ Len(orders) = l.nOrders0
                  /\ Len(orders') = l.nOrders0 + 1
                  /\ loc'[w].orderID = Len(orders')
                  /\ order.status = OrderStatusPending
                  /\ order.userID = l.userID
                  /\ Len(order.items) = Len(l.items)
                  /\ \A i \in DOMAIN l.items :
                       /\ order.items[i].productID = l.items[i].productID
                       /\ order.items[i].quantity = l.items[i].quantity
                       /\ order.items[i].price = Price[l.items[i].productID]
                  /\ order.totalAmount = RequestTotal(l.items)
                  /\ \A p \in ProductIDs :
                       stock'[p] = l.stock0[p] - RequestedOf(l.items, p)]_vars

\* a checkout of two lines, both of the same product, bought its whole stock
C20_Witness ==
  \E w \in Workers :
    /\ ReturnedFrom(w, "Checkout") /\ loc[w].result = "OK"
    /\ LET items == orders[loc[w].orderID].items
       IN /\ Len(items) = 2
          /\ items[1].productID = items[2].productID
          /\ loc[w].stock0[items[1].productID] = 2
          /\ stock[items[1].productID] = 0

\* C21: a seller's UpdateStock served together with a Checkout or a CancelOrder
\* loses no reservation and no restoration: the statement that writes the
\* seller's change moves the stock by the seller's quantity, from whatever
\* the stock is at that moment.
C21_SellerUpdateKeepsReservations ==
  [][\A w \in Workers :
       pc[w] = "su_save" /\ pc'[w] = "idle"
         => LET l == loc[w]
            IN stock'[l.productID] =
                 stock[l.productID] + (l.product.stock - l.readStock)]_vars

\* C22: an order item's price and subtotal are the product's price when the
\* Checkout ran, and no later step, a product update that changes the price
\* included, alters the items or the total of an order that exists.
C22_PriceSnapshot ==
  [][/\ \A o \in DOMAIN orders :
          /\ o \in DOMAIN orders'
          /\ orders'[o].items = orders[o].items
          /\ orders'[o].totalAmount = orders[o].totalAmount
     /\ \A w \in Workers :
          pc[w] = "ck_create" /\ pc'[w] = "idle" /\ loc'[w].result = "OK"
            => LET order == orders'[Len(orders')]
               IN /\ \A i \in DOMAIN order.items :
                       /\ order.items[i].price = price[order.items[i].productID]
                       /\ order.items[i].subtotal =
                            price[order.items[i].productID] * order.items[i].quantity
                  /\ order.totalAmount = SumSubtotals(order.items)]_vars

\* a product update changed the price of a product that an order holds, and
\* the order still carries the old price
C22_Witness ==
  /\ ReturnedFrom(1, "UpdateProduct") /\ loc[1].result = "OK"
  /\ \E o \in DOMAIN orders :
       /\ orders[o].items[1].productID = loc[1].productID
       /\ orders[o].items[1].price = Price[loc[1].productID]
       /\ price[loc[1].productID] # Price[loc[1].productID]
       /\ orders[o].totalAmount = Price[loc[1].productID] * orders[o].items[1].quantity

\* C23: GetOrder, GetPayment and GetPaymentByOrderID hand an order or a
\* payment only to the user it belongs to.
C23_OwnerOnlyReads ==
  \A w \in Workers :
    pc[w] = "idle" /\ loc[w].result = "OK"
      => /\ loc[w].op = "GetOrder" => orders[loc[w].orderID].userID = loc[w].userID
         /\ loc[w].op \in {"GetPayment", "GetPaymentByOrderID"}
              => payments[loc[w].paymentID].userID = loc[w].userID

\* C24: no two persisted payments carry the same transaction id, whichever id
\* generateTransactionID hands to a CreatePayment.
C24_TransactionIDUnique ==
  \A j, k \in DOMAIN payments :
    j # k => payments[j].transactionID # payments[k].transactionID

\* a CreatePayment drew the transaction id of a stored payment and its insert
\* was refused
C24_Witness ==
  \E w \in Workers :
    /\ ReturnedFrom(w, "CreatePayment") /\ loc[w].result = "DBError"
    /\ Len(payments) >= 1

\* C25: once a Logout with a token has answered 200, AuthMiddleware rejects
\* every later request that carries the token while the token has not expired.
C25_LoggedOutTokenRejected ==
  [][\A t \in loggedOut :
       (/\ calls' = calls + 1
        /\ loc'[1].op = "AuthMiddleware"
        /\ loc'[1].token = t
        /\ ValidateToken(t))
         => loc'[1].result # "OK"]_vars

\* C26: once a Checkout whose lines were all reserved has returned a
\* persistence error (the order insert or the commit failed), no order was
\* created and every product's stock equals its value before the call.
C26_FailedInsertRestoresStock ==
  \A w \in Workers :
    ReturnedFrom(w, "Checkout") /\ loc[w].result = "DBError"
      => /\ Len(orders) = loc[w].nOrders0
         /\ \A p \in ProductIDs : stock[p] = loc[w].stock0[p]

\* C27: every order that is PAID, SHIPPED or COMPLETED has a SUCCESS payment
\* that references it.
C27_PaidOrderHasSuccessPayment ==
  \A o \in DOMAIN orders :
    orders[o].status \in {OrderStatusPaid, OrderStatusShipped, OrderStatusCompleted}
      => \E k \in DOMAIN payments :
           payments[k].orderID = o /\ IsSuccess(payments[k])

\* C28: no CANCELLED order has a SUCCESS payment that references it.
C28_CancelledOrderHasNoSuccessPayment ==
  \A o \in DOMAIN orders :
    orders[o].status = OrderStatusCancelled
      => ~\E k \in DOMAIN payments :
            payments[k].orderID = o /\ IsSuccess(payments[k])

\* C29: with no seller adjustment and every product stocked with MaxStock to
\* begin with, whenever no Checkout and no cancellation is in progress each
\* product's stock plus the quantities of it held by the orders that are not
\* CANCELLED is MaxStock.
RECURSIVE Held(_, _)
Held(tbl, p) ==
  IF tbl = <<>> THEN 0
  ELSE (IF tbl[1].status = OrderStatusCancelled THEN 0 ELSE RequestedOf(tbl[1].items, p))
       + Held(Tail(tbl), p)
C29_StockConservation ==
  (\A w \in Workers : pc[w] = "idle")
    => \A p \in ProductIDs : stock[p] + Held(orders, p) = MaxStock

\* C30: two CancelOrder calls by the owner on the same PENDING order, served
\* at once, restore the stock of the order's product at most once: when both
\* have returned, at most one has succeeded and together they have restored
\* each line of the order at most once.
C30_ConcurrentCancelRestoresOnce ==
  (/\ ReturnedFrom(1, "CancelOrder") /\ ReturnedFrom(2, "CancelOrder")
   /\ loc[1].orderID = loc[2].orderID
   /\ loc[1].orderID \in DOMAIN orders)
    => /\ ~(loc[1].result = "OK" /\ loc[2].result = "OK")
       /\ loc[1].restored + loc[2].restored <= Len(orders[loc[1].orderID].items)

\* C31: with no persistence failure and the settlement goroutines scheduled
\* fairly, every payment CreatePayment has inserted reaches SUCCESS or FAILED,
\* and from some point on stays SUCCESS or FAILED, whichever callbacks run
\* between the goroutine's statements.
IsTerminal(payment) == IsSuccess(payment) \/ IsFailed(payment)
C31_PaymentEventuallyTerminal ==
  \A k \in PaymentIDs :
    /\ (k \in DOMAIN payments) ~> (k \in DOMAIN payments /\ IsTerminal(payments[k]))
    /\ [](k \in DOMAIN payments
            => <>[](k \in DOMAIN payments /\ IsTerminal(payments[k])))

\* a callback resolved a payment between the statements of its settlement
\* goroutine, which then ran to its end: the payment had two terminal writes
C31_Witness ==
  \E k \in DOMAIN payments :
    /\ resolved[k] = 2
    /\ pc[TaskOf(k)] = "done"
    /\ IsTerminal(payments[k])

\* C32: in every state a payment's paid-at is set exactly when its status is
\* SUCCESS, and its failure reason is non-empty only when its status is FAILED.
C32_PaidAtAndReasonMatchStatus ==
  \A k \in DOMAIN payments :
    /\ payments[k].paidAt <=> IsSuccess(payments[k])
    /\ payments[k].failedReason # "" => IsFailed(payments[k])

\* C33: in every state each payment's user is the user of the order the
\* payment references.
C33_PaymentOwnerIsOrderOwner ==
  \A k \in DOMAIN payments :
    /\ payments[k].orderID \in DOMAIN orders
    /\ payments[k].userID = orders[payments[k].orderID].userID

\* the owner's payment for an order has FAILED and another user's
\* CreatePayment for that order was refused
C33_Witness ==
  \E k \in DOMAIN payments :
    /\ ReturnedFrom(1, "CreatePayment") /\ loc[1].result = "OrderNotFound"
    /\ loc[1].orderID = payments[k].orderID
    /\ orders[loc[1].orderID].userID # loc[1].userID
    /\ payments[k].userID = orders[loc[1].orderID].userID
    /\ IsFailed(payments[k])
    /\ Len(payments) = 1

\* C34: the write of an UpdateProduct whose request has no stock member (one
\* that only renames the product, or only changes its price) leaves the
\* product's stock as it is.
C34_OmittedStockUnchanged ==
  [][\A w \in Workers :
       pc[w] = "up_save" /\ pc'[w] = "idle" /\ ~loc[w].stockSupplied
         => stock'[loc[w].productID] = stock[loc[w].productID]]_vars

====
